---- MODULE Spec2Model ----
(***************************************************************************)
(* Model of scripts/viewer.py: the Viewer session state machine driven by  *)
(* the periodic `update` task, the messages it pops from                   *)
(* msgutil.MessageBuffer, and the presentation events it sends.            *)
(***************************************************************************)
EXTENDS Integers, Sequences, FiniteSets, TLC

\* ------------------------------------------------------------------ bounds
\* Number of messages the server writes on the connection in one run.
MaxMsgs == 3
\* The count of sock.connect calls is kept up to this value (it saturates).
MaxConnects == 5

\* ------------------------------------------------------------- vocabulary
\* class ViewerState
ViewerState == {"WaitingForConnection", "ConnectionPending", "Viewing"}

\* Order of the enum values (WaitingForConnection = 0, ConnectionPending = 1,
\* Viewing = 2).
StateValue(s) ==
    CASE s = "WaitingForConnection" -> 0
      [] s = "ConnectionPending" -> 1
      [] s = "Viewing" -> 2
      [] OTHER -> 3

\* Secrets are UUIDs; "None" is Python's None (no --secret given).
Secrets == {"X", "Y"}
ConfiguredSecrets == {"None", "X"}

\* The --name argument.
ConfiguredName == "alice"

\* str.upper() on the player names that occur.
Upper(n) == CASE n = "alice" -> "ALICE" [] n = "bob" -> "BOB" [] OTHER -> n

\* pop_msg() returned None.
NoneMsg == [type |-> "None"]

\* msgutil.LoginMessage(name, secret=..., conn_type=...)
LoginMessage(n, s, k) == [type |-> "Login", name |-> n, secret |-> s, conn_type |-> k]

ConnectionClosedMessage == [type |-> "ConnectionClosed"]

\* The system built by get_initial_system; broadcast systems carry an
\* identity and the clock t.
InitialSystem == [id |-> 0, t |-> 0]

\* One Broadcast: scores is a dict, kept as the sequence of its items in
\* insertion order.
BroadcastMessage(s, i, sc) ==
    [type |-> "Broadcast", system |-> s, shot_info |-> i, scores |-> sc]

BroadcastMessages ==
    { BroadcastMessage([id |-> 1, t |-> 5],
                       [player |-> "bob", game_over |-> TRUE, winner |-> "bob"],
                       << <<"alice", 2>>, <<"bob", 5>> >>),
      BroadcastMessage([id |-> 2, t |-> 3],
                       [player |-> "alice", game_over |-> FALSE, winner |-> "None"],
                       << <<"bob", 1>>, <<"alice", 2>> >>),
      BroadcastMessage([id |-> 3, t |-> 5],
                       [player |-> "bob", game_over |-> FALSE, winner |-> "None"],
                       << <<"alice", 2>>, <<"bob", 1>> >>) }

\* Everything the server can write on the connection.
ServerMessages ==
    { [type |-> "LoginSuccess", secret |-> s] : s \in Secrets }
    \cup { [type |-> "LoginFailed", reason |-> "bad secret"] }
    \cup { LoginMessage("bob", "None", "PLAYER") }
    \cup BroadcastMessages

\* End of stream as the socket reports it.
EOF == [type |-> "EOF"]

VARIABLES
    state,          \* self.state
    secret,         \* self.secret
    system,         \* self.system
    turn_indicator, \* self.turn_indicator.text, as its words
    sock,           \* self.sock: [open, connected, blocking]
    hasBuffer,      \* self.buffer has been assigned
    out,            \* buffer: messages pushed, not yet written
    inq,            \* buffer: messages decoded, not yet popped
    bufClosed,      \* buffer: ConnectionClosed has been produced
    msg,            \* the local msg of the last update that popped
    taskAlive,      \* the 'update' task is still scheduled
    proc,           \* "running", "exited" (exitFunc ran), "crashed"
    triggers,       \* messenger.send calls, in call order
    log,            \* logging calls, in call order
    server,         \* "down", "listening", "unreachable"
    wire,           \* bytes the server wrote, not yet read by the client
    txed,           \* messages the client wrote to the socket
    nsent,          \* number of messages the server wrote
    connects,       \* number of sock.connect calls (saturating)
    pending,        \* handler tasks started by messenger.send, not yet ended
    fired,          \* resumptions of handler tasks, in order
    score_display,  \* self.score_display.text, as its words
    game_over_text, \* self.game_over_text: [text, visible]
    bannerAge,      \* time since game_over_text was last shown
    animated        \* systems on which controller.animate() was called

\* What the handler tasks read and write.
presentation ==
    << pending, fired, score_display, game_over_text, bannerAge, animated >>

vars == << state, secret, system, turn_indicator, sock, hasBuffer, out, inq,
           bufClosed, msg, taskAlive, proc, triggers, log, server, wire, txed,
           nsent, connects, pending, fired, score_display, game_over_text,
           bannerAge, animated >>

\* --------------------------------------------------------- Viewer.__init__
Init ==
    /\ state = "WaitingForConnection"
    /\ secret \in ConfiguredSecrets
    /\ system = InitialSystem
    /\ turn_indicator = << >>
    /\ sock = [open |-> TRUE, connected |-> FALSE, blocking |-> TRUE]
    /\ hasBuffer = FALSE
    /\ out = << >>
    /\ inq = << >>
    /\ bufClosed = FALSE
    /\ msg = NoneMsg
    /\ taskAlive = TRUE
    /\ proc = "running"
    /\ triggers = << >>
    /\ log = << >>
    /\ server \in {"down", "listening", "unreachable"}
    /\ wire = << >>
    /\ txed = << >>
    /\ nsent = 0
    /\ connects = 0
    /\ pending = << >>
    /\ fired = << >>
    /\ score_display = << >>
    /\ game_over_text = [text |-> << >>, visible |-> FALSE]
    /\ bannerAge = 0
    /\ animated = << >>

\* ------------------------------------------------- msgutil.MessageBuffer
\* A frame read from the socket decodes to its message; end of stream
\* becomes the synthetic ConnectionClosed message.
Decode(b) == IF b.type = "EOF" THEN ConnectionClosedMessage ELSE b

\* The incoming queue after update(): everything readable is decoded and
\* queued; once ConnectionClosed has been produced update() is a no-op.
Polled ==
    IF bufClosed THEN inq
    ELSE inq \o [i \in 1 .. Len(wire) |-> Decode(wire[i])]

\* What pop_msg() returns on queue q, and the queue it leaves.
PopMsg(q) == IF q = << >> THEN NoneMsg ELSE Head(q)
PopRest(q) == IF q = << >> THEN q ELSE Tail(q)

\* Variant of UpdateAndPop: every queued message is popped, the last one kept.
UpdateAndPopAll ==
    /\ msg' = (IF Polled = << >> THEN NoneMsg ELSE Polled[Len(Polled)])
    /\ inq' = << >>
    /\ txed' = IF bufClosed THEN txed ELSE txed \o out
    /\ out' = IF bufClosed THEN out ELSE << >>
    /\ wire' = IF bufClosed THEN wire ELSE << >>
    /\ bufClosed' = (bufClosed \/ \E i \in 1 .. Len(wire) : wire[i] = EOF)

\* update() followed by pop_msg(): pushed messages are written, readable
\* frames are read and decoded, the head of the queue is handed out.
UpdateAndPop ==
    /\ msg' = PopMsg(Polled)
    /\ inq' = PopRest(Polled)
    /\ txed' = IF bufClosed THEN txed ELSE txed \o out
    /\ out' = IF bufClosed THEN out ELSE << >>
    /\ wire' = IF bufClosed THEN wire ELSE << >>
    /\ bufClosed' = (bufClosed \/ \E i \in 1 .. Len(wire) : wire[i] = EOF)

\* ------------------------------------------- Viewer.update, first branch
\* sock.connect(self.address): accepted, ConnectionRefusedError, or another
\* OSError (timeout, unreachable network).
ConnectResult ==
    CASE server = "listening" -> "ok"
      [] server = "down" -> "refused"
      [] OTHER -> "error"

\* Variant of PushLogin: the Login is pushed twice.
PushLoginTwice ==
    Append(Append(out, LoginMessage(ConfiguredName, secret, "VIEWER")),
           LoginMessage(ConfiguredName, secret, "VIEWER"))

\* The outgoing queue after push_msg(LoginMessage(...)).
PushLogin == Append(out, LoginMessage(ConfiguredName, secret, "VIEWER"))

\* Variant of WaitingState: the state advances whatever connect did.
WaitingStateAlways(r) == "ConnectionPending"

\* The state after a connect attempt.
WaitingState(r) == IF r = "ok" THEN "ConnectionPending" ELSE state

\* Whether the task goes on after a connect attempt: only
\* ConnectionRefusedError is caught.
WaitingAgain(r) == r \in {"ok", "refused"}

TickWaiting ==
    /\ state = "WaitingForConnection"
    /\ connects' = IF connects < MaxConnects THEN connects + 1 ELSE connects
    /\ state' = WaitingState(ConnectResult)
    /\ taskAlive' = WaitingAgain(ConnectResult)
    /\ proc' = IF WaitingAgain(ConnectResult) THEN proc ELSE "crashed"
    /\ IF ConnectResult = "ok"
       THEN /\ sock' = [sock EXCEPT !.connected = TRUE, !.blocking = FALSE]
            /\ hasBuffer' = TRUE
            /\ out' = PushLogin
       ELSE UNCHANGED << sock, hasBuffer, out >>
    /\ UNCHANGED presentation
    /\ UNCHANGED << secret, system, turn_indicator, inq, bufClosed, msg,
                    triggers, log, server, wire, txed, nsent >>

\* ------------------------------------------ Viewer.update, second branch
\* Variant of PendingState: LoginSuccess is logged but Viewing is not entered.
PendingStateNever(m) == state

\* Variant of PendingState: LoginFailed and ConnectionClosed enter a fourth
\* state, Closed.
PendingStateClosed(m) ==
    CASE m.type = "LoginSuccess" -> "Viewing"
      [] m.type \in {"LoginFailed", "ConnectionClosed"} -> "Closed"
      [] OTHER -> state

\* Variant of PendingState: an unexpected message restarts the connection.
PendingStateRestart(m) ==
    CASE m.type = "LoginSuccess" -> "Viewing"
      [] m.type \in {"Login", "Broadcast"} -> "WaitingForConnection"
      [] OTHER -> state

PendingState(m) == IF m.type = "LoginSuccess" THEN "Viewing" ELSE state

\* Variant of PendingAgain: LoginFailed does not end the task.
PendingAgainOnFailure(m) == m.type # "ConnectionClosed"

\* return task.done on ConnectionClosed and LoginFailed, task.again otherwise.
PendingAgain(m) == m.type \notin {"ConnectionClosed", "LoginFailed"}

\* Variant of PendingSecret: the returned secret is stored.
PendingSecretStored(m) == IF m.type = "LoginSuccess" THEN m.secret ELSE secret

\* The returned secret is logged; self.secret is not assigned.
PendingSecret(m) == secret

PendingLog(m) ==
    CASE m.type = "None" -> log
      [] m.type = "ConnectionClosed" ->
            Append(log, [level |-> "INFO", text |-> "Server disconnected!", arg |-> ""])
      [] m.type = "LoginSuccess" ->
            Append(log, [level |-> "INFO", text |-> "Connected! Secret:", arg |-> m.secret])
      [] m.type = "LoginFailed" ->
            Append(log, [level |-> "INFO", text |-> "Failed to connect!", arg |-> m.reason])
      [] OTHER ->
            Append(log, [level |-> "WARNING", text |-> "Unexpected message!", arg |-> ""])

TickPending ==
    /\ state = "ConnectionPending"
    /\ UpdateAndPop
    /\ state' = PendingState(msg')
    /\ taskAlive' = PendingAgain(msg')
    /\ secret' = PendingSecret(msg')
    /\ log' = PendingLog(msg')
    /\ UNCHANGED << system, turn_indicator, sock, hasBuffer, proc, triggers,
                    server, nsent, connects >>
    /\ UNCHANGED presentation

\* ------------------------------------------- Viewer.update, third branch
\* Variant of ViewingAgain: LoginFailed ends the task in Viewing too.
ViewingAgainNotOnFailure(m) == m.type \notin {"ConnectionClosed", "LoginFailed"}

\* return task.done on ConnectionClosed, task.again otherwise.
ViewingAgain(m) == m.type # "ConnectionClosed"

\* Variant of ViewingSystem: the broadcast system is not adopted.
ViewingSystemKept(m) == system

\* del self.system; self.system = msg.system
ViewingSystem(m) == IF m.type = "Broadcast" THEN m.system ELSE system

ViewingTurnIndicator(m) ==
    IF m.type = "Broadcast"
    THEN << "Active player:", Upper(m.shot_info.player) >>
    ELSE turn_indicator

\* Variant of BroadcastTriggers: animate_shot is sent first.
BroadcastTriggersAnimateFirst(m) ==
    << [event |-> "animate_shot", args |-> << >>] >>
    \o (IF m.shot_info.game_over
        THEN << [event |-> "game_over", args |-> << m.shot_info.winner, m.system.t >>] >>
        ELSE << >>)
    \o << [event |-> "update_score", args |-> << m.scores, m.system.t >>] >>

\* Variant of BroadcastTriggers: t is read before self.system is assigned.
BroadcastTriggersStaleClock(m) ==
    (IF m.shot_info.game_over
     THEN << [event |-> "game_over", args |-> << m.shot_info.winner, system.t >>] >>
     ELSE << >>)
    \o << [event |-> "update_score", args |-> << m.scores, system.t >>] >>
    \o << [event |-> "animate_shot", args |-> << >>] >>

\* The messenger.send calls of one Broadcast, in call order; t is read from
\* self.system after the assignment.
BroadcastTriggers(m) ==
    (IF m.shot_info.game_over
     THEN << [event |-> "game_over", args |-> << m.shot_info.winner, ViewingSystem(m).t >>] >>
     ELSE << >>)
    \o << [event |-> "update_score", args |-> << m.scores, ViewingSystem(m).t >>] >>
    \o << [event |-> "animate_shot", args |-> << >>] >>

ViewingTriggers(m) ==
    IF m.type = "Broadcast" THEN triggers \o BroadcastTriggers(m) ELSE triggers

ViewingLog(m) ==
    CASE m.type \in {"None", "Broadcast"} -> log
      [] m.type = "ConnectionClosed" ->
            Append(log, [level |-> "INFO", text |-> "Server disconnected!", arg |-> ""])
      [] OTHER ->
            Append(log, [level |-> "WARNING", text |-> "Unexpected message!", arg |-> ""])

\* The handler tasks one Broadcast starts: messenger.send calls the accepted
\* coroutine handler of each event, which runs up to its first Task.pause.
NewTasks(m) ==
    [i \in 1 .. Len(BroadcastTriggers(m)) |->
        [id |-> Len(triggers) + i,
         event |-> BroadcastTriggers(m)[i].event,
         args |-> BroadcastTriggers(m)[i].args,
         pc |-> "pause",
         elapsed |-> 0]]

\* Variant of ViewingTasks: a new Broadcast cancels the tasks still paused.
ViewingTasksCancelStale(m) ==
    IF m.type = "Broadcast" THEN NewTasks(m) ELSE pending

\* The pending tasks after the tick: nothing is cancelled.
ViewingTasks(m) ==
    IF m.type = "Broadcast" THEN pending \o NewTasks(m) ELSE pending

TickViewing ==
    /\ state = "Viewing"
    /\ UpdateAndPop
    /\ taskAlive' = ViewingAgain(msg')
    /\ system' = ViewingSystem(msg')
    /\ turn_indicator' = ViewingTurnIndicator(msg')
    /\ triggers' = ViewingTriggers(msg')
    /\ log' = ViewingLog(msg')
    /\ pending' = ViewingTasks(msg')
    /\ UNCHANGED << state, secret, sock, hasBuffer, proc, server, nsent, connects,
                    fired, score_display, game_over_text, bannerAge, animated >>

\* ------------------------------------------- Viewer.update, else branch
\* raise NotImplementedError('Unkown state!'): the exception leaves the task.
TickUnknown ==
    /\ state \notin ViewerState
    /\ taskAlive' = FALSE
    /\ proc' = "crashed"
    /\ UNCHANGED << state, secret, system, turn_indicator, sock, hasBuffer, out,
                    inq, bufClosed, msg, triggers, log, server, wire, txed,
                    nsent, connects >>
    /\ UNCHANGED presentation

\* One run of the 'update' task; it runs while it is scheduled.
Tick ==
    /\ proc = "running"
    /\ taskAlive
    /\ (TickWaiting \/ TickPending \/ TickViewing \/ TickUnknown)

\* ------------------------------------------------------------ Viewer.exit
\* exitFunc: the window is closed, the socket is closed, the process ends.
Exit ==
    /\ proc = "running"
    /\ proc' = "exited"
    /\ sock' = [sock EXCEPT !.open = FALSE]
    /\ UNCHANGED << state, secret, system, turn_indicator, hasBuffer, out, inq,
                    bufClosed, msg, taskAlive, triggers, log, server, wire,
                    txed, nsent, connects >>
    /\ UNCHANGED presentation

\* ------------------------------------------------------ the handler tasks
\* Time is counted in half units: Task.pause(1.5) of animate_shot and
\* Task.pause(2.5) of on_game_over.
AnimateDelay == 3
BannerWindow == 5

\* Task.pause(wait) with the wait the handler was sent.
HalfUnits(t) == 2 * t

\* Variant of TaskWait: update_score does not pause.
TaskWaitScoreAtOnce(k) ==
    CASE k.event = "game_over" /\ k.pc = "pause" -> HalfUnits(k.args[2])
      [] k.event = "game_over" -> BannerWindow
      [] k.event = "update_score" -> 0
      [] OTHER -> AnimateDelay

\* The pause the task is in.
TaskWait(k) ==
    CASE k.event = "game_over" /\ k.pc = "pause" -> HalfUnits(k.args[2])
      [] k.event = "game_over" -> BannerWindow
      [] k.event = "update_score" -> HalfUnits(k.args[2])
      [] OTHER -> AnimateDelay

\* The pause of the task is over.
Due(k) == k.elapsed >= TaskWait(k)

\* The sequence q without its i-th element.
Remove(q, i) == SubSeq(q, 1, i - 1) \o SubSeq(q, i + 1, Len(q))

\* The record of one resumption.
Firing(k, e) == [id |-> k.id, event |-> e, at |-> k.elapsed]

\* f'{names[0].upper()}: {scores[0]} vs. {names[1].upper()}: {scores[1]}'
ScoreText(scores) ==
    << Upper(scores[1][1]), scores[1][2], "vs.",
       Upper(scores[2][1]), scores[2][2] >>

\* f'GAME OVER! {winner.upper()} WON!'
GameOverText(winner) == << "GAME OVER!", Upper(winner), "WON!" >>

\* Half a time unit passes; tasks whose pause is over are resumed first.
Advance ==
    /\ proc = "running"
    /\ pending # << >>
    /\ \A i \in 1 .. Len(pending) : ~Due(pending[i])
    /\ pending' = [i \in 1 .. Len(pending) |->
                      [pending[i] EXCEPT !.elapsed = @ + 1]]
    /\ bannerAge' = IF game_over_text.visible THEN bannerAge + 1 ELSE bannerAge
    /\ UNCHANGED << state, secret, system, turn_indicator, sock, hasBuffer, out,
                    inq, bufClosed, msg, taskAlive, proc, triggers, log, server,
                    wire, txed, nsent, connects, fired, score_display,
                    game_over_text, animated >>

\* on_game_over after Task.pause(wait): the banner is set and shown, then
\* the task pauses for 2.5.
OnGameOverShow(i) ==
    /\ proc = "running"
    /\ i \in 1 .. Len(pending)
    /\ pending[i].event = "game_over"
    /\ pending[i].pc = "pause"
    /\ Due(pending[i])
    /\ game_over_text' = [text |-> GameOverText(pending[i].args[1]),
                          visible |-> TRUE]
    /\ bannerAge' = 0
    /\ pending' = [pending EXCEPT ![i] = [@ EXCEPT !.pc = "shown", !.elapsed = 0]]
    /\ fired' = Append(fired, Firing(pending[i], "game_over"))
    /\ UNCHANGED << state, secret, system, turn_indicator, sock, hasBuffer, out,
                    inq, bufClosed, msg, taskAlive, proc, triggers, log, server,
                    wire, txed, nsent, connects, score_display, animated >>

\* on_game_over after Task.pause(2.5): the banner is hidden.
OnGameOverHide(i) ==
    /\ proc = "running"
    /\ i \in 1 .. Len(pending)
    /\ pending[i].event = "game_over"
    /\ pending[i].pc = "shown"
    /\ Due(pending[i])
    /\ game_over_text' = [game_over_text EXCEPT !.visible = FALSE]
    /\ bannerAge' = 0
    /\ pending' = Remove(pending, i)
    /\ fired' = Append(fired, Firing(pending[i], "game_over_hide"))
    /\ UNCHANGED << state, secret, system, turn_indicator, sock, hasBuffer, out,
                    inq, bufClosed, msg, taskAlive, proc, triggers, log, server,
                    wire, txed, nsent, connects, score_display, animated >>

\* update_score after Task.pause(wait): the score text is set.
UpdateScoreRun(i) ==
    /\ proc = "running"
    /\ i \in 1 .. Len(pending)
    /\ pending[i].event = "update_score"
    /\ Due(pending[i])
    /\ score_display' = ScoreText(pending[i].args[1])
    /\ pending' = Remove(pending, i)
    /\ fired' = Append(fired, Firing(pending[i], "update_score"))
    /\ UNCHANGED << state, secret, system, turn_indicator, sock, hasBuffer, out,
                    inq, bufClosed, msg, taskAlive, proc, triggers, log, server,
                    wire, txed, nsent, connects, game_over_text, bannerAge,
                    animated >>

\* animate_shot after Task.pause(1.5): the controller animates the system
\* attached to it, the current one.
AnimateShotRun(i) ==
    /\ proc = "running"
    /\ i \in 1 .. Len(pending)
    /\ pending[i].event = "animate_shot"
    /\ Due(pending[i])
    /\ animated' = Append(animated, system.id)
    /\ pending' = Remove(pending, i)
    /\ fired' = Append(fired, Firing(pending[i], "animate_shot"))
    /\ UNCHANGED << state, secret, system, turn_indicator, sock, hasBuffer, out,
                    inq, bufClosed, msg, taskAlive, proc, triggers, log, server,
                    wire, txed, nsent, connects, score_display, game_over_text,
                    bannerAge >>

\* ------------------------------------------------------------- the server
\* The server starts listening.
ServerStart ==
    /\ proc = "running"
    /\ server = "down"
    /\ server' = "listening"
    /\ UNCHANGED << state, secret, system, turn_indicator, sock, hasBuffer, out,
                    inq, bufClosed, msg, taskAlive, proc, triggers, log, wire,
                    txed, nsent, connects >>
    /\ UNCHANGED presentation

\* The server writes one message on the accepted connection.
ServerSend(m) ==
    /\ proc = "running"
    /\ server = "listening"
    /\ sock.connected
    /\ nsent < MaxMsgs
    /\ wire' = Append(wire, m)
    /\ nsent' = nsent + 1
    /\ UNCHANGED << state, secret, system, turn_indicator, sock, hasBuffer, out,
                    inq, bufClosed, msg, taskAlive, proc, triggers, log, server,
                    txed, connects >>
    /\ UNCHANGED presentation

\* The server closes the accepted connection: the client reads end of stream.
ServerClose ==
    /\ proc = "running"
    /\ server = "listening"
    /\ sock.connected
    /\ server' = "closed"
    /\ wire' = Append(wire, EOF)
    /\ UNCHANGED << state, secret, system, turn_indicator, sock, hasBuffer, out,
                    inq, bufClosed, msg, taskAlive, proc, triggers, log, txed,
                    nsent, connects >>
    /\ UNCHANGED presentation

Next ==
    \/ Tick
    \/ Exit
    \/ ServerStart
    \/ \E m \in ServerMessages : ServerSend(m)
    \/ ServerClose

Spec == Init /\ [][Next]_vars

\* What a server that follows the protocol writes to a viewer.
ShowMessages ==
    { [type |-> "LoginSuccess", secret |-> "X"] } \cup BroadcastMessages

\* The session together with the handler tasks, for a server that listens
\* from the start and follows the protocol.
ShowInit == Init /\ server = "listening" /\ secret = "None"

ShowNext ==
    \/ Tick
    \/ \E m \in ShowMessages : ServerSend(m)
    \/ ServerClose
    \/ Advance
    \/ \E i \in 1 .. Len(pending) : OnGameOverShow(i)
    \/ \E i \in 1 .. Len(pending) : OnGameOverHide(i)
    \/ \E i \in 1 .. Len(pending) : UpdateScoreRun(i)
    \/ \E i \in 1 .. Len(pending) : AnimateShotRun(i)

ShowSpec == ShowInit /\ [][ShowNext]_vars

\* The update task is run again every update_time while it is scheduled.
LiveSpec == Init /\ [][Next]_vars /\ WF_vars(Tick)

\* ------------------------------------------------------------ properties
WAITING == "WaitingForConnection"
PENDING == "ConnectionPending"
VIEWING == "Viewing"

\* The update task ran in state s and popped a message of one of the types ts.
Popped(s, ts) == Tick /\ state = s /\ msg'.type \in ts

\* C1: the state only moves forward, one step at a time, along
\* WaitingForConnection -> ConnectionPending -> Viewing: no step re-enters
\* WaitingForConnection, no step leaves Viewing, and Viewing is entered only
\* by the tick that pops LoginSuccess in ConnectionPending while the task is
\* still scheduled (no LoginFailed/ConnectionClosed was popped before).
C1_StateOnlyAdvances ==
    [][ /\ StateValue(state') >= StateValue(state)
        /\ StateValue(state') <= StateValue(state) + 1
        /\ (state # VIEWING /\ state' = VIEWING)
              => (taskAlive /\ Popped(PENDING, {"LoginSuccess"})) ]_vars

\* C1 witness: in Viewing a further, unexpected message has been handled.
C1_Witness ==
    /\ state = VIEWING
    /\ msg.type = "LoginSuccess"
    /\ Len(log) >= 2
    /\ log[Len(log)].level = "WARNING"

\* All messages the client has pushed, written ones first.
Outgoing == txed \o out

\* C2: exactly one Login is pushed per connection: none before the connect
\* succeeds, one from the tick in which it succeeds on, and it is the first
\* outgoing message.
C2_ExactlyOneLogin ==
    /\ Cardinality({i \in 1 .. Len(Outgoing) : Outgoing[i].type = "Login"})
          = (IF state = WAITING THEN 0 ELSE 1)
    /\ Outgoing # << >> => Outgoing[1].type = "Login"

\* C2 witness: the Login has been written and further messages were handled
\* in ConnectionPending and in Viewing.
C2_Witness ==
    /\ state = VIEWING
    /\ txed # << >>
    /\ Len(log) >= 3

\* C3: the tick that pops ConnectionClosed (ConnectionPending or Viewing) or
\* LoginFailed (ConnectionPending) ends the update task, and once the task
\* has ended nothing polls the transport, pops a message, changes the state
\* or replaces the snapshot, whatever is still queued.
C3_TerminalStopsLoop ==
    [][ /\ ( \/ Popped(PENDING, {"ConnectionClosed", "LoginFailed"})
             \/ Popped(VIEWING, {"ConnectionClosed"}) ) => ~taskAlive'
        /\ ~taskAlive =>
              /\ ~taskAlive'
              /\ UNCHANGED << state, system, msg, inq, bufClosed, out, txed,
                              triggers, secret, turn_indicator, log >>
              /\ Len(wire') >= Len(wire)
              /\ SubSeq(wire', 1, Len(wire)) = wire ]_vars

\* C3 witness: the task ended on LoginFailed with a LoginSuccess decoded
\* behind it and more data unread on the socket.
C3_Witness ==
    /\ ~taskAlive
    /\ msg.type = "LoginFailed"
    /\ inq # << >>
    /\ inq[1].type = "LoginSuccess"
    /\ wire # << >>

\* The session is Closed: the task ended on a terminal message.
SessionClosed ==
    /\ hasBuffer
    /\ ~taskAlive
    /\ msg.type \in {"ConnectionClosed", "LoginFailed"}

\* C4: the socket is closed in every state in which the session is Closed,
\* and after process exit.
C4_SocketClosedOnEveryExit ==
    (SessionClosed \/ proc = "exited") => ~sock.open

\* C5 as stated: the tick that pops LoginSuccess in ConnectionPending stores
\* the returned secret in the session and enters Viewing.
C5_SecretStored ==
    [][ Popped(PENDING, {"LoginSuccess"})
           => (secret' = msg'.secret /\ state' = VIEWING) ]_vars

\* C5 amended: the tick that pops LoginSuccess in ConnectionPending logs the
\* returned secret, leaves the session's stored secret as configured, and
\* enters Viewing.
C5_SecretLoggedNotStored ==
    [][ Popped(PENDING, {"LoginSuccess"})
           => /\ secret' = secret
              /\ state' = VIEWING
              /\ log' = Append(log, [level |-> "INFO",
                                     text |-> "Connected! Secret:",
                                     arg |-> msg'.secret]) ]_vars

\* C5 witness: Viewing was entered on a LoginSuccess whose secret differs from
\* the stored one.
C5_Witness ==
    /\ state = VIEWING
    /\ \E i \in 1 .. Len(log) :
          /\ log[i].text = "Connected! Secret:"
          /\ log[i].arg # secret

\* C6: a Broadcast popped in Viewing replaces the snapshot by its own, whole;
\* no other step changes the snapshot; the initial snapshot is retained
\* exactly until the first Broadcast is processed.
C6_SnapshotReplacedByBroadcast ==
    [][ /\ Popped(VIEWING, {"Broadcast"}) => system' = msg'.system
        /\ system' # system => Popped(VIEWING, {"Broadcast"})
        /\ (system = InitialSystem) <=> (triggers = << >>) ]_vars

\* C6 witness: the game-over Broadcast and then the Broadcast of snapshot 2
\* were processed, then ConnectionClosed, and the snapshot is still that of
\* the second Broadcast.
C6_Witness ==
    /\ Len(triggers) = 5
    /\ triggers[1].event = "game_over"
    /\ msg.type = "ConnectionClosed"
    /\ system.id = 2

\* The triggers sent by the step, those after the ones sent before.
NewTriggers == SubSeq(triggers', Len(triggers) + 1, Len(triggers'))

\* The positions of the new triggers for event e.
NewFor(e) == {i \in 1 .. Len(NewTriggers) : NewTriggers[i].event = e}

\* C7: the tick that pops a Broadcast in Viewing sends exactly one
\* update_score with the broadcast's scores, in order, at the broadcast's
\* clock t, exactly one animate_shot, and a game_over with the winner at t
\* if and only if game_over is set; no other step sends a trigger.
C7_TriggersPerBroadcast ==
    [][ /\ Popped(VIEWING, {"Broadcast"}) =>
              /\ Len(triggers') >= Len(triggers)
              /\ SubSeq(triggers', 1, Len(triggers)) = triggers
              /\ Cardinality(NewFor("update_score")) = 1
              /\ \A i \in NewFor("update_score") :
                    NewTriggers[i].args = << msg'.scores, msg'.system.t >>
              /\ Cardinality(NewFor("animate_shot")) = 1
              /\ Cardinality(NewFor("game_over"))
                    = (IF msg'.shot_info.game_over THEN 1 ELSE 0)
              /\ \A i \in NewFor("game_over") :
                    NewTriggers[i].args = << msg'.shot_info.winner, msg'.system.t >>
              /\ Len(NewTriggers) = (IF msg'.shot_info.game_over THEN 3 ELSE 2)
        /\ triggers' # triggers => Popped(VIEWING, {"Broadcast"}) ]_vars

\* C7 witness: a game-over Broadcast and one with the scores in the other
\* order have both been processed.
C7_Witness ==
    /\ \E i \in 1 .. Len(triggers) :
          /\ triggers[i].event = "game_over"
          /\ triggers[i].args = << "bob", 5 >>
    /\ \E i \in 1 .. Len(triggers) :
          /\ triggers[i].event = "update_score"
          /\ triggers[i].args = << << <<"bob", 1>>, <<"alice", 2>> >>, 3 >>

\* The variants each state handles, and None.
HandledPending == {"None", "ConnectionClosed", "LoginSuccess", "LoginFailed"}
HandledViewing == {"None", "ConnectionClosed", "Broadcast"}
AllTypes == {"None", "ConnectionClosed", "LoginSuccess", "LoginFailed",
             "Broadcast", "Login"}

\* C8: a variant that is unexpected for the state leaves the state, the
\* stored secret, the snapshot and the triggers unchanged, is logged as a
\* warning, and the task stays scheduled.
C8_UnexpectedChangesNothing ==
    [][ ( \/ Popped(PENDING, AllTypes \ HandledPending)
          \/ Popped(VIEWING, AllTypes \ HandledViewing) )
           => /\ UNCHANGED << state, secret, system, triggers, turn_indicator >>
              /\ taskAlive'
              /\ proc' = "running"
              /\ log' = Append(log, [level |-> "WARNING",
                                     text |-> "Unexpected message!",
                                     arg |-> ""]) ]_vars

\* C8 witness: a Broadcast was popped in ConnectionPending and the task
\* goes on.
C8_Witness ==
    /\ state = PENDING
    /\ msg.type = "Broadcast"
    /\ taskAlive
    /\ system = InitialSystem

\* C9 as stated: the tick that pops LoginFailed, in ConnectionPending or in
\* Viewing, ends the task.
C9_LoginFailedAlwaysTerminal ==
    [][ ( \/ Popped(PENDING, {"LoginFailed"})
          \/ Popped(VIEWING, {"LoginFailed"}) ) => ~taskAlive' ]_vars

\* C9 amended: LoginFailed ends the task when popped in ConnectionPending;
\* popped in Viewing it is an unexpected message: the state stays Viewing and
\* the task stays scheduled.
C9_LoginFailedTerminalInPending ==
    [][ /\ Popped(PENDING, {"LoginFailed"}) => (~taskAlive' /\ state' = PENDING)
        /\ Popped(VIEWING, {"LoginFailed"}) => (taskAlive' /\ state' = VIEWING) ]_vars

\* C9 witness: LoginFailed was popped in Viewing and the task goes on.
C9_Witness ==
    /\ state = VIEWING
    /\ msg.type = "LoginFailed"
    /\ taskAlive

\* C10: while connect is refused the state stays WaitingForConnection, no
\* message is pushed or written and the task stays scheduled; the tick in
\* which connect succeeds enters ConnectionPending with exactly one Login
\* pushed; nothing is sent in WaitingForConnection.
C10_RefusedThenConnected ==
    [][ /\ (Tick /\ state = WAITING /\ server = "down")
              => /\ state' = WAITING
                 /\ taskAlive'
                 /\ ~hasBuffer'
                 /\ Outgoing' = << >>
        /\ (Tick /\ state = WAITING /\ server = "listening")
              => /\ state' = PENDING
                 /\ taskAlive'
                 /\ out' = << LoginMessage(ConfiguredName, secret, "VIEWER") >>
                 /\ txed' = << >>
        /\ state = WAITING => Outgoing = << >> ]_vars

\* C10 witness: connect was refused three times and succeeded the fourth.
C10_Witness ==
    /\ connects = 4
    /\ state = PENDING
    /\ Len(out) = 1
    /\ taskAlive

\* The first LoginSuccess, LoginFailed or ConnectionClosed among the messages
\* received and not yet popped is a LoginSuccess.
LoginSuccessComesFirst ==
    \E i \in 1 .. Len(Polled) :
       /\ Polled[i].type = "LoginSuccess"
       /\ \A j \in 1 .. (i - 1) :
             Polled[j].type \notin {"LoginFailed", "ConnectionClosed"}

\* C11: once the server listens, the running client connects and its first
\* outgoing message is Login with the configured name, the configured secret
\* (None when not configured) and kind VIEWER; once a LoginSuccess has arrived
\* with no LoginFailed/ConnectionClosed before it, the state becomes Viewing
\* (as long as the process is not exited).
C11_HandshakeCompletes ==
    /\ [](state # WAITING =>
             /\ Outgoing # << >>
             /\ Outgoing[1] = LoginMessage(ConfiguredName, secret, "VIEWER")
             /\ secret \in ConfiguredSecrets)
    /\ (state = WAITING /\ server = "listening" /\ taskAlive)
          ~> (state = PENDING \/ proc = "exited")
    /\ (state = PENDING /\ taskAlive /\ LoginSuccessComesFirst)
          ~> (state = VIEWING \/ proc = "exited")

\* C11 witness: Scenario A: Login with no secret was written, LoginSuccess
\* was popped, the state is Viewing.
C11_Witness ==
    /\ state = VIEWING
    /\ txed = << LoginMessage("alice", "None", "VIEWER") >>
    /\ msg = [type |-> "LoginSuccess", secret |-> "X"]
    /\ proc = "running"

\* C13: in every state a tick ends with the task scheduled again; in
\* WaitingForConnection a connect that is neither accepted nor refused leaves
\* the state WaitingForConnection and the task scheduled.
C13_AbsentPeerNeverKillsLoop ==
    [][ (Tick /\ state = WAITING /\ server \notin {"listening", "down"})
           => (state' = WAITING /\ taskAlive' /\ proc' = "running") ]_vars

\* C14: in the tick that processes a Broadcast the snapshot is adopted (the
\* triggers carry its clock) and animate_shot is sent last, after
\* update_score and after game_over when present.
C14_AnimateShotRegisteredLast ==
    [][ Popped(VIEWING, {"Broadcast"}) =>
           /\ system' = msg'.system
           /\ NewTriggers # << >>
           /\ NewTriggers[Len(NewTriggers)].event = "animate_shot"
           /\ \A i \in 1 .. Len(NewTriggers) :
                 NewTriggers[i].event \in {"update_score", "game_over"}
                    => /\ i < Len(NewTriggers)
                       /\ NewTriggers[i].args[2] = system'.t ]_vars

\* C14 witness: a game-over Broadcast was processed after another one.
C14_Witness ==
    /\ Len(triggers) = 5
    /\ triggers[3].event = "game_over"
    /\ triggers[5].event = "animate_shot"

\* The messages the transport yields to the tick, in arrival order: those
\* decoded before and, unless the stream has ended, those readable now.
Queued ==
    IF bufClosed THEN inq
    ELSE inq \o [i \in 1 .. Len(wire) |-> Decode(wire[i])]

\* C15: a tick in ConnectionPending or Viewing pops exactly the first queued
\* message and leaves the others queued in order; a tick that finds none
\* leaves state, secret, snapshot and triggers unchanged.
C15_OneMessagePerTick ==
    [][ (Tick /\ state \in {PENDING, VIEWING}) =>
           /\ Queued # << >> => (msg' = Head(Queued) /\ inq' = Tail(Queued))
           /\ Queued = << >> =>
                 /\ msg' = NoneMsg
                 /\ inq' = << >>
                 /\ UNCHANGED << state, secret, system, triggers, taskAlive >>
           /\ ~bufClosed => wire' = << >> ]_vars

\* C15 witness: three messages were queued at once and two are still queued
\* after the tick that popped the first.
C15_Witness ==
    /\ state = VIEWING
    /\ msg.type = "LoginSuccess"
    /\ Len(inq) = 2
    /\ inq[1].type = "Broadcast"
    /\ log = << [level |-> "INFO", text |-> "Connected! Secret:", arg |-> msg.secret] >>

\* C19: the buffer exists exactly when the state is ConnectionPending or
\* Viewing, and then the socket is connected and non-blocking; in
\* WaitingForConnection nothing has been polled, popped or written.
C19_BufferExistsWhenUsed ==
    /\ hasBuffer <=> (state \in {PENDING, VIEWING})
    /\ hasBuffer => (sock.connected /\ ~sock.blocking)
    /\ state = WAITING =>
          /\ ~sock.connected
          /\ inq = << >>
          /\ txed = << >>
          /\ msg = NoneMsg

\* C19 witness: connect was refused, then accepted, and the buffer was polled.
C19_Witness ==
    /\ connects = 2
    /\ hasBuffer
    /\ txed # << >>
    /\ msg.type = "Login"

\* C20: the state is always one of the three ViewerState values, and the
\* process never ends on the unknown-state exception.
C20_StateAlwaysKnown ==
    /\ state \in ViewerState
    /\ proc = "crashed" => (state = WAITING /\ server = "unreachable")

\* C20 witness: the task ran in all three states and ended on a terminal
\* message.
C20_Witness ==
    /\ state = VIEWING
    /\ ~taskAlive
    /\ msg.type = "ConnectionClosed"
    /\ Len(log) = 2

\* The clock t of the Broadcast whose animate_shot has identity id: the one
\* sent with the update_score just before it.
ClockOf(id) == triggers[id - 1].args[2]

\* C12 as stated: the animate_shot of a Broadcast with clock t resumes
\* t + 1.5 after the Broadcast was processed, 1.5 after its update_score.
C12_AnimateAfterScore ==
    \A i \in 1 .. Len(fired) :
       fired[i].event = "animate_shot"
          => fired[i].at = HalfUnits(ClockOf(fired[i].id)) + AnimateDelay

\* C12 amended: measured from the tick that processed the Broadcast,
\* update_score and game_over resume after t and animate_shot after 1.5,
\* whatever t is.
C12_AnimateAtFixedDelay ==
    \A i \in 1 .. Len(fired) :
       /\ fired[i].event = "animate_shot" => fired[i].at = AnimateDelay
       /\ fired[i].event \in {"update_score", "game_over"}
             => fired[i].at = HalfUnits(triggers[fired[i].id].args[2])

\* C12 witness: Scenario C: for the Broadcast with t = 5 animate_shot resumed
\* after 1.5, then game_over and update_score after 5.
C12_Witness ==
    /\ Len(fired) >= 3
    /\ fired[1] = [id |-> 3, event |-> "animate_shot", at |-> 3]
    /\ \E i \in 2 .. Len(fired) :
          fired[i] = [id |-> 2, event |-> "update_score", at |-> 10]
    /\ \E i \in 2 .. Len(fired) :
          fired[i] = [id |-> 1, event |-> "game_over", at |-> 10]

\* The task with identity id is paused before its handler has acted.
Scheduled(id) ==
    \E i \in 1 .. Len(pending) : pending[i].id = id /\ pending[i].pc = "pause"

\* The handler of the task with identity id has acted.
HasFired(id) ==
    \E j \in 1 .. Len(fired) :
       fired[j].id = id /\ fired[j].event = triggers[id].event

\* Some task can be resumed.
SomeTaskResumes ==
    \E i \in 1 .. Len(pending) :
       \/ OnGameOverShow(i)
       \/ OnGameOverHide(i)
       \/ UpdateScoreRun(i)
       \/ AnimateShotRun(i)

\* C16: no task is cancelled: a task leaves the pending tasks only when it is
\* resumed, also while later Broadcasts are processed; every trigger sent is
\* either still paused or has acted, never both; no handler acts twice; no
\* task stays paused beyond its wait, and while tasks are paused either one
\* is resumed or time passes.
C16_EveryTriggerFiresOnce ==
    /\ [][ \A i \in 1 .. Len(pending) :
              \/ \E j \in 1 .. Len(pending') : pending'[j].id = pending[i].id
              \/ /\ Len(fired') = Len(fired) + 1
                 /\ fired'[Len(fired')].id = pending[i].id ]_vars
    /\ [](\A id \in 1 .. Len(triggers) : Scheduled(id) <=> ~HasFired(id))
    /\ [](\A i, j \in 1 .. Len(fired) :
             (fired[i].id = fired[j].id /\ fired[i].event = fired[j].event)
                => i = j)
    /\ [](\A i \in 1 .. Len(pending) :
             pending[i].elapsed <= TaskWait(pending[i]))
    /\ []((pending # << >> /\ proc = "running")
             => ENABLED (Advance \/ SomeTaskResumes))

\* C16 witness: the update_score of a first Broadcast acted after a second
\* Broadcast had been processed and its update_score had acted, and nothing
\* is pending any more.
C16_Witness ==
    /\ Len(triggers) = 5
    /\ pending = << >>
    /\ \E i, j \in 1 .. Len(fired) :
          /\ i < j
          /\ fired[i] = [id |-> 4, event |-> "update_score", at |-> 6]
          /\ fired[j] = [id |-> 2, event |-> "update_score", at |-> 10]

\* C17 as stated: the banner is hidden only when it has been visible for the
\* whole window, and its text does not change while it is visible.
C17_BannerFullWindow ==
    [][ /\ (game_over_text.visible /\ ~game_over_text'.visible)
              => bannerAge = BannerWindow
        /\ (game_over_text.visible /\ game_over_text'.visible)
              => game_over_text'.text = game_over_text.text ]_vars

\* The scores of the Broadcast processed last, as update_score displays them.
NewestScoreText == ScoreText(triggers[Len(triggers) - 1].args[1])

\* C18 as stated: when no update_score is pending any more, the displayed
\* score is that of the Broadcast processed last.
C18_ScoreIsNewest ==
    ( /\ triggers # << >>
      /\ \A i \in 1 .. Len(pending) : pending[i].event # "update_score" )
       => score_display = NewestScoreText

====
